---- MODULE Spec2Model ----
(***************************************************************************)
(* A model of pdf-image-extractor/extract.py: extract_images (the page and *)
(* image loops with the size filter and the limit), upload_to_drive (the   *)
(* remote snapshot, the skip/upload decision and the cap) and main (the    *)
(* argument parser and the two modes).                                     *)
(*                                                                         *)
(* Strings the program builds are kept structured: a file name             *)
(* page{p}_img{i}.png is the record [page, img, ext], a path is            *)
(* [dir, name].  The colour-space conversion of line 59-60 changes neither *)
(* the width nor the height of the pixmap and is not represented.          *)
(***************************************************************************)
EXTENDS Integers, Sequences, FiniteSets, Bags, TLC

VARIABLES
    entry,          \* the function the behaviour starts in
    args,           \* the parsed command line (argparse namespace)
    pdf_doc,        \* the document fitz.open returns: a sequence of pages
    remote,         \* the Drive folder: a bag of file names
    pc,             \* position in the program
    exit_code,      \* process exit status, meaningful when pc = "exited"
    stderr,         \* why the process ended
    env,            \* what the run has found of its environment so far
    outdir_made,    \* os.makedirs(output_dir) was called
    written,        \* files saved by pix.save in this run
    page_num, img_idx, extracted, decoded,      \* locals of extract_images
    image_paths, upload_limit,                  \* locals of main
    existing_names, uploaded, pos,              \* locals of upload_to_drive
    run, list_calls, uploaded_log, skipped_log, outcome_log

vars == <<entry, args, pdf_doc, remote, pc, exit_code, stderr, env, outdir_made,
          written, page_num, img_idx, extracted, decoded, image_paths,
          upload_limit, existing_names, uploaded, pos, run, list_calls,
          uploaded_log, skipped_log, outcome_log>>

extractVars == <<outdir_made, written, page_num, img_idx, extracted, decoded>>
uploadVars == <<remote, existing_names, uploaded, pos, run, list_calls,
                uploaded_log, skipped_log, outcome_log>>

-----------------------------------------------------------------------------
(* Bounds of the model *)
MaxPages == 2
MaxImages == 3
MaxLimit == 4
MaxFiles == 3
MaxRuns == 2

(* Program constants *)
DefaultMinSize == 100
DefaultLimit == 0

None == "None"
DefaultOutputDir == "./extracted_images"
OutputDirs == {DefaultOutputDir, "out"}

Limits == {-1} \cup (DefaultLimit .. MaxLimit)
MinSizes == {DefaultMinSize - 1, DefaultMinSize}

-----------------------------------------------------------------------------
(* Documents *)
Dims == {DefaultMinSize - 1, DefaultMinSize}
Pixmaps == [width : Dims, height : Dims]

SeqsUpTo(S, n) == UNION {[1..k -> S] : k \in 0..n}

RECURSIVE DocsWith(_, _)
DocsWith(p, n) ==
    IF p = 0 THEN {<<>>}
    ELSE UNION {{<<pg>> \o d : d \in DocsWith(p - 1, n - Len(pg))} :
                    pg \in SeqsUpTo(Pixmaps, n)}

Big == [width |-> DefaultMinSize, height |-> DefaultMinSize]
Narrow == [width |-> DefaultMinSize - 1, height |-> DefaultMinSize]
Flat == [width |-> DefaultMinSize, height |-> DefaultMinSize - 1]

\* three pages with 2, 0 and 5 images of at least DefaultMinSize, and
\* undersized images between them
ExampleDoc == << <<Narrow, Big, Big>>, <<>>, <<Big, Flat, Big, Big, Big, Big>> >>

Docs == UNION {DocsWith(p, MaxImages) : p \in 0..MaxPages} \cup {ExampleDoc}

-----------------------------------------------------------------------------
(* Pure helpers *)

\* an `is not None` test
TruthyNotNone(x) == x /= None

\* Python truthiness of an optional string: None and "" are false
Truthy(x) == x /= None /\ x /= ""

\* the comparison off by one
LimitReachedLate(limit, n) == limit /= 0 /\ n > limit

\* `limit and len(extracted) >= limit`, `limit and uploaded >= limit`
LimitReached(limit, n) == limit /= 0 /\ n >= limit

\* `and` in place of `or`
TooSmallBoth(pix, min_size) == pix.width < min_size /\ pix.height < min_size

\* `pix.width < min_size or pix.height < min_size`
TooSmall(pix, min_size) == pix.width < min_size \/ pix.height < min_size

\* the counters used as they are
ImageNameZeroBased(pn, ii) == [page |-> pn, img |-> ii, ext |-> "png"]

\* f"page{page_num + 1}_img{img_idx + 1}.png", from the 0-based counters
ImageName(pn, ii) == [page |-> pn + 1, img |-> ii + 1, ext |-> "png"]

\* os.path.join(output_dir, name)
PathJoin(dir, name) == [dir |-> dir, name |-> name]

\* os.path.basename(path)
Basename(path) == path.name

-----------------------------------------------------------------------------
(* extract_images *)

\* lines 29-38: import fitz, makedirs, open the document
ExtractOpen ==
    /\ pc = "extract_images"
    /\ \E have_fitz \in BOOLEAN :
        IF ~have_fitz
        THEN /\ env' = [env EXCEPT !.fitz = "missing"]
             /\ pc' = "exited"
             /\ exit_code' = 1
             /\ stderr' = "PyMuPDF not installed"
             /\ UNCHANGED extractVars
        ELSE /\ env' = [env EXCEPT !.fitz = "present"]
             /\ outdir_made' = TRUE
             /\ extracted' = <<>>
             /\ page_num' = 0
             /\ pc' = "page_loop"
             /\ UNCHANGED <<exit_code, stderr, written, img_idx, decoded>>
    /\ UNCHANGED <<entry, args, pdf_doc, image_paths, upload_limit>>
    /\ UNCHANGED uploadVars

\* lines 40-45: one entry of the page loop
PageEntry ==
    /\ pc = "page_loop"
    /\ IF page_num >= Len(pdf_doc) \/ LimitReached(args.limit, Len(extracted))
       THEN pc' = "extract_return" /\ UNCHANGED img_idx
       ELSE pc' = "image_loop" /\ img_idx' = 0
    /\ UNCHANGED <<entry, args, pdf_doc, exit_code, stderr, env, outdir_made,
                   written, page_num, extracted, decoded, image_paths,
                   upload_limit>>
    /\ UNCHANGED uploadVars

\* lines 47-65: one entry of the image loop of page page_num
ImageStep ==
    /\ pc = "image_loop"
    /\ LET images == pdf_doc[page_num + 1] IN
       IF img_idx >= Len(images) \/ LimitReached(args.limit, Len(extracted))
       THEN \* the inner loop ends or breaks: on to the next page
            /\ page_num' = page_num + 1
            /\ pc' = "page_loop"
            /\ UNCHANGED <<img_idx, written, extracted, decoded>>
       ELSE LET pix == images[img_idx + 1]
                img_path == PathJoin(args.output_dir, ImageName(page_num, img_idx))
            IN  /\ decoded' = Append(decoded, <<page_num, img_idx>>)
                /\ img_idx' = img_idx + 1
                /\ UNCHANGED <<pc, page_num>>
                /\ IF TooSmall(pix, args.min_size)
                   THEN UNCHANGED <<written, extracted>>
                   ELSE /\ written' = {f \in written : f.path /= img_path} \cup
                                {[path |-> img_path, width |-> pix.width,
                                  height |-> pix.height]}
                        /\ extracted' = Append(extracted, img_path)
    /\ UNCHANGED <<entry, args, pdf_doc, exit_code, stderr, env, outdir_made,
                   image_paths, upload_limit>>
    /\ UNCHANGED uploadVars

\* lines 67-68, and lines 164-170 of main when main is the caller
ExtractReturn ==
    /\ pc = "extract_return"
    /\ IF entry = "main"
       THEN image_paths' = extracted /\ pc' = "maybe_upload"
       ELSE UNCHANGED image_paths /\ pc' = "done"
    /\ UNCHANGED <<entry, args, pdf_doc, exit_code, stderr, env, upload_limit>>
    /\ UNCHANGED extractVars
    /\ UNCHANGED uploadVars

-----------------------------------------------------------------------------
(* upload_to_drive *)

\* the listing taken for empty
ExistingNamesEmpty(folder) == {}

\* line 91: the set of names of the items list_folder returns
ExistingNames(folder) == BagToSet(folder)

\* a match on the page part of the name instead of the whole name
AlreadyPresentLoose(filename, names) == \E n \in names : n.page = filename.page

\* the check left out
AlreadyPresentNever(filename, names) == FALSE

\* line 99: `filename in existing_names`
AlreadyPresent(filename, names) == filename \in names

\* line 103: what a successful upload_file(path, folder_id) makes of the folder
AfterUpload(folder, path) == folder (+) SetToBag({Basename(path)})

StartLog(log, first) == Append(log, first)
Outcome(how) == [how |-> how, at |-> pos]

\* lines 83-87: the call begins and imports the SDK
UploadImport ==
    /\ pc = "upload_to_drive"
    /\ run' = run + 1
    /\ list_calls' = 0
    /\ uploaded_log' = StartLog(uploaded_log, <<>>)
    /\ skipped_log' = StartLog(skipped_log, {})
    /\ \E have_gwsa \in BOOLEAN :
        IF ~have_gwsa
        THEN /\ env' = [env EXCEPT !.gwsa = "missing"]
             /\ outcome_log' = StartLog(outcome_log, Outcome("import_error"))
             /\ pc' = "exited"
             /\ exit_code' = 1
             /\ stderr' = "gwsa not installed"
        ELSE /\ env' = [env EXCEPT !.gwsa = "present"]
             /\ outcome_log' = StartLog(outcome_log, Outcome("running"))
             /\ pc' = "list_folder"
             /\ UNCHANGED <<exit_code, stderr>>
    /\ UNCHANGED <<entry, args, pdf_doc, image_paths, upload_limit, remote,
                   existing_names, uploaded, pos>>
    /\ UNCHANGED extractVars

\* lines 90-93: the one listing of the remote folder
ListFolder ==
    /\ pc = "list_folder"
    /\ existing_names' = ExistingNames(remote)
    /\ list_calls' = list_calls + 1
    /\ uploaded' = 0
    /\ pos' = 1
    /\ pc' = "upload_loop"
    /\ UNCHANGED <<entry, args, pdf_doc, exit_code, stderr, env, image_paths,
                   upload_limit, remote, run, uploaded_log, skipped_log,
                   outcome_log>>
    /\ UNCHANGED extractVars

\* lines 94-106: one entry of the loop over image_paths, upload_file succeeding
UploadStep ==
    /\ pc = "upload_loop"
    /\ IF pos > Len(image_paths) \/ LimitReached(upload_limit, uploaded)
       THEN /\ pc' = "upload_return"
            /\ UNCHANGED <<pos, uploaded, remote, uploaded_log, skipped_log>>
       ELSE LET path == image_paths[pos]
                filename == Basename(path)
            IN  /\ pos' = pos + 1
                /\ UNCHANGED pc
                /\ IF AlreadyPresent(filename, existing_names)
                   THEN /\ skipped_log' =
                              [skipped_log EXCEPT ![run] = @ \cup {path}]
                        /\ UNCHANGED <<uploaded, remote, uploaded_log>>
                   ELSE /\ remote' = AfterUpload(remote, path)
                        /\ uploaded' = uploaded + 1
                        /\ uploaded_log' =
                              [uploaded_log EXCEPT ![run] = Append(@, path)]
                        /\ UNCHANGED skipped_log
    /\ UNCHANGED <<entry, args, pdf_doc, exit_code, stderr, env, image_paths,
                   upload_limit, existing_names, run, list_calls, outcome_log>>
    /\ UNCHANGED extractVars

\* line 103: upload_file raises; nothing catches it and the interpreter ends
\* the process with a traceback and status 1
UploadRaises ==
    /\ pc = "upload_loop"
    /\ pos <= Len(image_paths)
    /\ ~LimitReached(upload_limit, uploaded)
    /\ ~AlreadyPresent(Basename(image_paths[pos]), existing_names)
    /\ outcome_log' = [outcome_log EXCEPT ![run] = Outcome("raised")]
    /\ pc' = "exited"
    /\ exit_code' = 1
    /\ stderr' = "Traceback"
    /\ UNCHANGED <<entry, args, pdf_doc, env, image_paths, upload_limit, remote,
                   existing_names, uploaded, pos, run, list_calls, uploaded_log,
                   skipped_log>>
    /\ UNCHANGED extractVars

\* line 108, and lines 176-177 of main when main is the caller
UploadReturn ==
    /\ pc = "upload_return"
    /\ outcome_log' = [outcome_log EXCEPT ![run] = Outcome("returned")]
    /\ pc' = IF entry = "main" THEN "exited" ELSE "done"
    /\ UNCHANGED <<entry, args, pdf_doc, exit_code, stderr, env, image_paths,
                   upload_limit, remote, existing_names, uploaded, pos, run,
                   list_calls, uploaded_log, skipped_log>>
    /\ UNCHANGED extractVars

\* upload_to_drive is called again with the same arguments
ReRun ==
    /\ pc \in {"done", "exited"}
    /\ run < MaxRuns
    /\ pc' = "upload_to_drive"
    /\ exit_code' = 0
    /\ stderr' = ""
    /\ UNCHANGED <<entry, args, pdf_doc, env, image_paths, upload_limit>>
    /\ UNCHANGED uploadVars
    /\ UNCHANGED extractVars

-----------------------------------------------------------------------------
(* main *)

\* the file names the output directory may hold
DirNames == {ImageName(0, i) : i \in 0 .. MaxFiles - 1} \cup
            {[page |-> 1, img |-> 1, ext |-> "txt"]}

\* the order of str on the names of the model: page{p}_img{i}.{ext} with
\* one-digit p and i compares as (p, i, ext)
NameLess(a, b) ==
    \/ a.page < b.page
    \/ a.page = b.page /\ a.img < b.img
    \/ a.page = b.page /\ a.img = b.img /\ a.ext = "png" /\ b.ext = "txt"

\* sorted(...): the sequence of the elements of S in increasing order
RECURSIVE SortedPaths(_)
SortedPaths(S) ==
    IF S = {} THEN <<>>
    ELSE LET least == CHOOSE x \in S :
                        \A y \in S \ {x} : NameLess(Basename(x), Basename(y))
         IN  <<least>> \o SortedPaths(S \ {least})

\* line 151, 156: str of a pathlib.Path, which drops a leading "./" of the
\* string it was made from
PathlibStr(dir) == IF dir = "./extracted_images" THEN "extracted_images" ELSE dir

\* line 156: sorted(str(p) for p in output_path.glob("*.png")); the paths
\* carry the directory as pathlib writes it, not as it was given
GlobPng(dir, listing) ==
    SortedPaths({PathJoin(PathlibStr(dir), n) :
                    n \in {m \in listing : m.ext = "png"}})

\* the cap dropped
UploadLimitNone(a) == 0

\* line 175
UploadLimit(a) == IF a.upload_only THEN a.limit ELSE 0

\* lines 112-143: the positional pdf is declared without nargs, so argparse
\* ends the process with status 2 when it is absent
ParseArgs ==
    /\ pc = "main"
    /\ IF args.pdf = None
       THEN pc' = "exited" /\ exit_code' = 2 /\ stderr' = "usage"
       ELSE pc' = "mode" /\ UNCHANGED <<exit_code, stderr>>
    /\ UNCHANGED <<entry, args, pdf_doc, env, image_paths, upload_limit>>
    /\ UNCHANGED uploadVars
    /\ UNCHANGED extractVars

\* the check reporting the error and exiting with status 0
UploadOnlyCheckExitsZero ==
    /\ pc = "mode"
    /\ args.upload_only
    /\ IF ~Truthy(args.drive_folder_id)
       THEN /\ pc' = "exited"
            /\ exit_code' = 0
            /\ stderr' = "--drive-folder-id required with --upload-only"
       ELSE pc' = "list_output_dir" /\ UNCHANGED <<exit_code, stderr>>
    /\ UNCHANGED <<entry, args, pdf_doc, env, image_paths, upload_limit>>
    /\ UNCHANGED uploadVars
    /\ UNCHANGED extractVars

\* lines 145-148
UploadOnlyCheck ==
    /\ pc = "mode"
    /\ args.upload_only
    /\ IF ~Truthy(args.drive_folder_id)
       THEN /\ pc' = "exited"
            /\ exit_code' = 1
            /\ stderr' = "--drive-folder-id required with --upload-only"
       ELSE pc' = "list_output_dir" /\ UNCHANGED <<exit_code, stderr>>
    /\ UNCHANGED <<entry, args, pdf_doc, env, image_paths, upload_limit>>
    /\ UNCHANGED uploadVars
    /\ UNCHANGED extractVars

\* lines 150-157
UploadOnlyList ==
    /\ pc = "list_output_dir"
    /\ \E dir_exists \in BOOLEAN :
        IF ~dir_exists
        THEN /\ env' = [env EXCEPT !.outdir = "missing"]
             /\ pc' = "exited"
             /\ exit_code' = 1
             /\ stderr' = "Output directory does not exist"
             /\ UNCHANGED image_paths
        ELSE /\ env' = [env EXCEPT !.outdir = "present"]
             /\ \E listing \in SUBSET DirNames :
                    image_paths' = GlobPng(args.output_dir, listing)
             /\ pc' = "maybe_upload"
             /\ UNCHANGED <<exit_code, stderr>>
    /\ UNCHANGED <<entry, args, pdf_doc, upload_limit>>
    /\ UNCHANGED uploadVars
    /\ UNCHANGED extractVars

\* lines 158-164
ExtractCheck ==
    /\ pc = "mode"
    /\ ~args.upload_only
    /\ \E pdf_exists \in BOOLEAN :
        IF ~pdf_exists
        THEN /\ env' = [env EXCEPT !.pdf = "missing"]
             /\ pc' = "exited"
             /\ exit_code' = 1
             /\ stderr' = "PDF file not found"
        ELSE /\ env' = [env EXCEPT !.pdf = "present"]
             /\ pc' = "extract_images"
             /\ UNCHANGED <<exit_code, stderr>>
    /\ UNCHANGED <<entry, args, pdf_doc, image_paths, upload_limit>>
    /\ UNCHANGED uploadVars
    /\ UNCHANGED extractVars

\* lines 172-176
MaybeUpload ==
    /\ pc = "maybe_upload"
    /\ IF Truthy(args.drive_folder_id)
       THEN upload_limit' = UploadLimit(args) /\ pc' = "upload_to_drive"
       ELSE UNCHANGED upload_limit /\ pc' = "exited"
    /\ UNCHANGED <<entry, args, pdf_doc, exit_code, stderr, env, image_paths>>
    /\ UNCHANGED uploadVars
    /\ UNCHANGED extractVars

-----------------------------------------------------------------------------
InitLocals ==
    /\ exit_code = 0
    /\ stderr = ""
    /\ env = [fitz |-> "unknown", gwsa |-> "unknown", pdf |-> "unknown",
              outdir |-> "unknown"]
    /\ outdir_made = FALSE
    /\ written = {}
    /\ page_num = 0
    /\ img_idx = 0
    /\ extracted = <<>>
    /\ decoded = <<>>
    /\ upload_limit = 0
    /\ existing_names = {}
    /\ uploaded = 0
    /\ pos = 0
    /\ run = 0
    /\ list_calls = 0
    /\ uploaded_log = <<>>
    /\ skipped_log = <<>>
    /\ outcome_log = <<>>

\* a call extract_images(pdf_path, output_dir, min_size, limit)
InitExtract ==
    /\ entry = "extract_images"
    /\ pc = "extract_images"
    /\ \E od \in OutputDirs, ms \in MinSizes, lim \in Limits :
          args = [pdf |-> "in.pdf", output_dir |-> od, min_size |-> ms,
                  limit |-> lim, drive_folder_id |-> None, upload_only |-> FALSE]
    /\ pdf_doc \in Docs
    /\ remote = EmptyBag
    /\ image_paths = <<>>
    /\ InitLocals

NextExtract == ExtractOpen \/ PageEntry \/ ImageStep \/ ExtractReturn

SpecExtract == InitExtract /\ [][NextExtract]_vars

\* the folders a run may find: none, some or all of the names, and a stranger
UploadNames == {ImageName(0, i) : i \in 0 .. MaxFiles - 1}
Stranger == [page |-> 1, img |-> 1, ext |-> "jpg"]
InitialFolders == {SetToBag(S) : S \in SUBSET (UploadNames \cup {Stranger})}

\* the directory part of the paths main passes: as given to os.path.join
\* (line 62) or as pathlib writes it (line 156)
UploadDirs == OutputDirs \cup {PathlibStr(d) : d \in OutputDirs}

\* a call upload_to_drive(image_paths, folder_id, limit), with the lists main
\* passes: paths of one directory, in increasing order of name
InitUpload ==
    /\ entry = "upload_to_drive"
    /\ pc = "upload_to_drive"
    /\ args = [pdf |-> "in.pdf", output_dir |-> DefaultOutputDir,
               min_size |-> DefaultMinSize, limit |-> DefaultLimit,
               drive_folder_id |-> "folder", upload_only |-> FALSE]
    /\ pdf_doc = <<>>
    /\ remote \in InitialFolders
    /\ \E od \in UploadDirs, S \in SUBSET UploadNames :
          image_paths = SortedPaths({PathJoin(od, n) : n \in S})
    /\ exit_code = 0
    /\ stderr = ""
    /\ env = [fitz |-> "unknown", gwsa |-> "unknown", pdf |-> "unknown",
              outdir |-> "unknown"]
    /\ outdir_made = FALSE
    /\ written = {}
    /\ page_num = 0
    /\ img_idx = 0
    /\ extracted = <<>>
    /\ decoded = <<>>
    /\ upload_limit \in Limits
    /\ existing_names = {}
    /\ uploaded = 0
    /\ pos = 0
    /\ run = 0
    /\ list_calls = 0
    /\ uploaded_log = <<>>
    /\ skipped_log = <<>>
    /\ outcome_log = <<>>

NextUpload ==
    UploadImport \/ ListFolder \/ UploadStep \/ UploadRaises \/ UploadReturn
    \/ ReRun

SpecUpload == InitUpload /\ [][NextUpload]_vars

\* the documents of the whole-program runs: at most one page of two images
MainDocs == DocsWith(0, 0) \cup DocsWith(1, 2)
MainFolders == {SetToBag(S) : S \in SUBSET {ImageName(0, 0), ImageName(0, 1)}}

\* a run of the command line
InitMain ==
    /\ entry = "main"
    /\ pc = "main"
    /\ args \in [pdf : {None, "in.pdf"}, output_dir : OutputDirs,
                  min_size : MinSizes, limit : Limits,
                  drive_folder_id : {None, "", "folder"},
                  upload_only : BOOLEAN]
    /\ pdf_doc \in (IF args.upload_only THEN {<<>>} ELSE MainDocs)
    /\ remote \in (IF args.drive_folder_id = "folder" THEN MainFolders
                                                       ELSE {EmptyBag})
    /\ image_paths = <<>>
    /\ InitLocals

NextMain ==
    \/ ParseArgs \/ UploadOnlyCheck \/ UploadOnlyList \/ ExtractCheck
    \/ ExtractOpen \/ PageEntry \/ ImageStep \/ ExtractReturn
    \/ MaybeUpload
    \/ UploadImport \/ ListFolder \/ UploadStep \/ UploadRaises \/ UploadReturn

SpecMain == InitMain /\ [][NextMain]_vars

-----------------------------------------------------------------------------
(* Reference definitions of the properties *)

Range(seq) == {seq[i] : i \in 1 .. Len(seq)}
Min(a, b) == IF a <= b THEN a ELSE b

\* an image qualifies when both of its dimensions reach the minimum
Qualifies(pix) == pix.width >= args.min_size /\ pix.height >= args.min_size

\* the paths of the qualifying images of page p (1-based), in listed order
PageQualifying(p) ==
    LET pg == pdf_doc[p]
        at == SelectSeq([i \in 1 .. Len(pg) |-> i], LAMBDA i : Qualifies(pg[i]))
    IN  [k \in 1 .. Len(at) |->
            [dir |-> args.output_dir,
             name |-> [page |-> p, img |-> at[k], ext |-> "png"]]]

RECURSIVE QualifyingFrom(_)
QualifyingFrom(p) ==
    IF p > Len(pdf_doc) THEN <<>> ELSE PageQualifying(p) \o QualifyingFrom(p + 1)

\* the qualifying images of the document, in document order
Qualifying == QualifyingFrom(1)

\* the image a 0-based position <<page_num, img_idx>> of decoded stands for
ImageAt(d) == pdf_doc[d[1] + 1][d[2] + 1]

-----------------------------------------------------------------------------
(* Claims on extract_images, under SpecExtract *)

\* C1: with a positive limit, at every point of extract_images and at its
\* return, the number of files written and the length of the returned list are
\* at most limit.
C1_LimitNeverExceeded ==
    args.limit > 0 =>
        /\ Len(extracted) <= args.limit
        /\ Cardinality(written) <= args.limit

\* the limit binds: the run returned with limit files and left qualifying
\* images behind
C1_Witness ==
    /\ pc = "done"
    /\ args.limit > 0
    /\ Len(extracted) = args.limit
    /\ Len(Qualifying) > args.limit

\* C2: every file written comes from an image whose width and height are both
\* at least min_size; no image with one dimension below it is written.
C2_NoUndersizedWritten ==
    \A f \in written :
        /\ f.width >= args.min_size
        /\ f.height >= args.min_size
        /\ Qualifies(pdf_doc[f.path.name.page][f.path.name.img])

\* with the default threshold, a too narrow and a too flat image were both
\* decoded and files were written
C2_Witness ==
    /\ pc = "done"
    /\ args.min_size = DefaultMinSize
    /\ written /= {}
    /\ \E i, j \in 1 .. Len(decoded) :
          ImageAt(decoded[i]) = Narrow /\ ImageAt(decoded[j]) = Flat

\* C4: with a positive limit L and Q qualifying images, extract_images returns
\* exactly the first min(L, Q) qualifying images in document order, named by
\* 1-based page and 1-based position in the page's list, and the last image it
\* looks at is the L-th qualifying one when there are that many.
C4_FirstQualifyingInOrder ==
    (pc = "done" /\ args.limit > 0) =>
        LET k == Min(args.limit, Len(Qualifying)) IN
        /\ extracted = SubSeq(Qualifying, 1, k)
        /\ {f.path : f \in written} = {Qualifying[i] : i \in 1 .. k}
        /\ Cardinality(written) = k
        /\ args.limit <= Len(Qualifying) =>
              LET last == decoded[Len(decoded)] IN
              PathJoin(args.output_dir,
                       [page |-> last[1] + 1, img |-> last[2] + 1, ext |-> "png"])
                  = Qualifying[args.limit]

\* the document with 2, 0 and 5 qualifying images and limit 4: four files, two
\* of page 1 and two of page 3
C4_Witness ==
    /\ pc = "done"
    /\ pdf_doc = ExampleDoc
    /\ args.limit = 4
    /\ args.min_size = DefaultMinSize
    /\ [i \in 1 .. Len(extracted) |->
            <<extracted[i].name.page, extracted[i].name.img>>]
          = << <<1, 2>>, <<1, 3>>, <<3, 1>>, <<3, 3>> >>
    /\ Cardinality(written) = 4

-----------------------------------------------------------------------------
(* Claims on upload_to_drive, under SpecUpload *)

\* the call numbered r has run its loop (it did not stop at the import)
Looped(r) == outcome_log[r].how \in {"returned", "raised"}

NamesOf(paths) == {Basename(p) : p \in paths}

\* C3 as stated: at the return of upload_to_drive, every path of the input
\* list was left without an upload if and only if its basename is in the
\* listing fetched at the start (stated for the documented limits, 0 or more).
C3_Original ==
    (pc = "done" /\ run >= 1 /\ upload_limit >= 0) =>
        \A k \in 1 .. Len(image_paths) :
            image_paths[k] \notin Range(uploaded_log[run])
                <=> Basename(image_paths[k]) \in existing_names

\* C3, amended: the listing is fetched exactly once, before any upload, and
\* every path the loop reaches (the paths before the cap ends the loop, all of
\* them when there is no cap) is skipped if and only if its basename is in
\* that listing, and uploaded otherwise; the paths the loop never reaches are
\* neither skipped nor uploaded.
C3_SkipIffInSnapshot ==
    (run >= 1 /\ pc /= "upload_to_drive"
        /\ outcome_log[run].how /= "import_error") =>
        IF pc = "list_folder"
        THEN list_calls = 0 /\ uploaded_log[run] = <<>> /\ skipped_log[run] = {}
        ELSE /\ list_calls = 1
             /\ BagToSet(remote) =
                    existing_names \cup NamesOf(Range(uploaded_log[run]))
             /\ \A k \in 1 .. Len(image_paths) :
                  LET p == image_paths[k] IN
                  IF k < pos
                  THEN /\ p \in skipped_log[run]
                            <=> Basename(p) \in existing_names
                       /\ p \in Range(uploaded_log[run])
                            <=> Basename(p) \notin existing_names
                  ELSE /\ p \notin skipped_log[run]
                       /\ p \notin Range(uploaded_log[run])

\* a run that skipped some paths and uploaded others, with a file of another
\* name in the listing
C3_Witness ==
    /\ pc = "done"
    /\ run >= 1
    /\ skipped_log[run] /= {}
    /\ uploaded_log[run] /= <<>>
    /\ Stranger \in existing_names

\* C5: when upload_to_drive is run again on the same list, the later run skips
\* every path an earlier run uploaded and uploads none of them again.
C5_RerunSkipsUploaded ==
    \A q, r \in 1 .. run :
        (q < r /\ Looped(r)) =>
            \A p \in Range(uploaded_log[q]) :
                p \in skipped_log[r] /\ p \notin Range(uploaded_log[r])

\* two complete runs, the first of which uploaded two files
C5_Witness ==
    /\ run = 2
    /\ outcome_log[1].how = "returned"
    /\ outcome_log[2].how = "returned"
    /\ Len(uploaded_log[1]) >= 2
    /\ Range(uploaded_log[1]) \subseteq skipped_log[2]

\* C10 as stated: after a run that an upload failure ended and a re-run that
\* completed, every local file is present remotely (stated for the documented
\* limits, 0 or more).
C10_Original ==
    (run >= 2 /\ upload_limit >= 0 /\ outcome_log[run - 1].how = "raised"
        /\ outcome_log[run].how = "returned") =>
        \A p \in Range(image_paths) : CopiesIn(Basename(p), remote) >= 1

\* C10, amended: an upload failure ends the run with everything before the
\* failing path handled, nothing after it touched, and the files uploaded so
\* far still in the folder; a later re-run over the same list skips the files
\* already in the folder, those uploaded before the failure among them, and
\* uploads only others; when that re-run has no cap (limit 0) and completes,
\* every local file is present remotely; and no file is ever uploaded twice.
C10_ResumeAfterFailure ==
    /\ \A r \in 1 .. run :
          \A p \in Range(uploaded_log[r]) : CopiesIn(Basename(p), remote) >= 1
    /\ \A r \in 1 .. run :
          outcome_log[r].how = "raised" =>
              /\ Range(uploaded_log[r]) \cup skipped_log[r]
                    = {image_paths[k] : k \in 1 .. outcome_log[r].at - 1}
              /\ (r = run /\ pc = "exited") => exit_code = 1
    /\ \A q \in 1 .. run - 1 :
          (outcome_log[q].how = "raised" /\ outcome_log[run].how = "returned") =>
              /\ Range(uploaded_log[q]) \subseteq skipped_log[run]
              /\ NamesOf(skipped_log[run]) \subseteq existing_names
              /\ NamesOf(Range(uploaded_log[run])) \cap existing_names = {}
              /\ upload_limit = 0 =>
                    /\ \A p \in Range(image_paths) :
                          CopiesIn(Basename(p), remote) >= 1
                    /\ skipped_log[run] =
                          {p \in Range(image_paths) :
                              Basename(p) \in existing_names}
    /\ \A q, r \in 1 .. run :
          \A i \in 1 .. Len(uploaded_log[q]), j \in 1 .. Len(uploaded_log[r]) :
              uploaded_log[q][i] = uploaded_log[r][j] => q = r /\ i = j
    /\ \A p \in Range(image_paths) : CopiesIn(Basename(p), remote) <= 1

\* a run that failed after an upload, then a complete run without a cap that
\* uploaded the rest
C10_Witness ==
    /\ run = 2
    /\ upload_limit = 0
    /\ outcome_log[1].how = "raised"
    /\ uploaded_log[1] /= <<>>
    /\ outcome_log[2].how = "returned"
    /\ uploaded_log[2] /= <<>>
    /\ Range(uploaded_log[1]) \subseteq skipped_log[2]

-----------------------------------------------------------------------------
(* Claims on main, under SpecMain *)

NoFolderId == args.drive_folder_id \in {None, ""}

\* C6: a run with --upload-only and no folder identifier exits with a
\* non-zero status, writes no file, creates no output directory, and neither
\* lists the remote folder nor uploads.
C6_UploadOnlyNeedsFolder ==
    (args.upload_only /\ NoFolderId) =>
        /\ pc \in {"main", "mode", "exited"}
        /\ pc = "exited" => exit_code /= 0
        /\ written = {}
        /\ ~outdir_made
        /\ env.outdir = "unknown"
        /\ run = 0
        /\ list_calls = 0
        /\ uploaded_log = <<>>

\* the run got past the argument parser and was ended by the check
C6_Witness ==
    /\ pc = "exited"
    /\ args.upload_only
    /\ NoFolderId
    /\ args.pdf /= None
    /\ exit_code = 1
    /\ stderr = "--drive-folder-id required with --upload-only"

\* the five conditions the specification lists for exit code 1
ListedFailure ==
    \/ env.fitz = "missing"
    \/ env.gwsa = "missing"
    \/ args.pdf /= None /\ args.upload_only /\ NoFolderId
    \/ env.outdir = "missing"
    \/ env.pdf = "missing"

UploadRaised == run >= 1 /\ outcome_log[run].how = "raised"

\* C7 as stated: the exit code is 1 in the five listed conditions and 0 in
\* every other run (stated for the runs the argument parser accepts).
C7_Original ==
    (pc = "exited" /\ args.pdf /= None) =>
        exit_code = (IF ListedFailure THEN 1 ELSE 0)

\* C7, amended: the exit code is 2 when the argument parser rejects the command
\* line; otherwise it is 1 when a run finds the decode dependency missing at
\* extraction, finds the upload dependency missing at upload, has --upload-only
\* without a folder identifier, finds the output directory missing in
\* upload-only mode or the source file missing in default mode, or is ended by
\* an exception no code catches (a failing upload); and it is 0 in every other
\* run, however many images were extracted or uploaded.
C7_ExitCodes ==
    pc = "exited" =>
        exit_code = (IF args.pdf = None THEN 2
                     ELSE IF ListedFailure \/ UploadRaised THEN 1
                     ELSE 0)

\* a run that a failing upload ended after an earlier upload went through
C7_Witness ==
    /\ pc = "exited"
    /\ exit_code = 1
    /\ UploadRaised
    /\ uploaded_log[run] /= <<>>
    /\ ~ListedFailure

\* C8: a run with --upload-only and a folder identifier but no PDF path is
\* accepted by the argument parser and goes on to list the output directory.
C8_PdfOptionalInUploadOnly ==
    (args.upload_only /\ ~NoFolderId /\ args.pdf = None /\ pc = "exited") =>
        /\ exit_code /= 2
        /\ env.outdir /= "unknown"

\* C9: in upload-only mode with a positive --limit the number of files
\* uploaded never exceeds it, skipped files not counting; in default mode the
\* upload phase has no cap: when it returns, every extracted file whose
\* basename is not in the remote snapshot has been uploaded.
C9_CapDependsOnMode ==
    run >= 1 =>
        /\ (args.upload_only /\ args.limit > 0) =>
              /\ Len(uploaded_log[run]) <= args.limit
              /\ uploaded <= args.limit
        /\ (~args.upload_only /\ outcome_log[run].how = "returned") =>
              /\ image_paths = extracted
              /\ Range(uploaded_log[run]) =
                    {p \in Range(extracted) : Basename(p) \notin existing_names}

\* an upload-only run the cap ended: a file skipped, limit files uploaded and
\* a missing file left behind
C9_Witness ==
    /\ pc = "exited"
    /\ args.upload_only
    /\ args.limit > 0
    /\ run = 1
    /\ outcome_log[1].how = "returned"
    /\ skipped_log[1] /= {}
    /\ Len(uploaded_log[1]) = args.limit
    /\ \E p \in Range(image_paths) : CopiesIn(Basename(p), remote) = 0
    /\ args.output_dir = DefaultOutputDir
    /\ \A p \in Range(image_paths) : p.dir = "extracted_images"

====
